---- MODULE Spec2Model ----
(***************************************************************************)
(* otree: the concurrent multi-worktree command runner of bin/otree.js.    *)
(*                                                                         *)
(* Text is a sequence of one-character strings, so that the regular        *)
(* expression of extractUrls is matched character by character.            *)
(*                                                                         *)
(* Spec      the run command: worktree listing, selection, the launch of   *)
(*           one child process per selected worktree, the process events   *)
(*           handled by the event loop, and the summary.                   *)
(* FairSpec  Spec with the fairness of the event loop.                     *)
(* SpecUrls  extractUrls applied to bounded lines of text.                 *)
(***************************************************************************)
EXTENDS Integers, Sequences, FiniteSets

VARIABLES
    pc,           \* position of runCommand
    worktrees,    \* the list parsed from `git worktree list --porcelain`
    selected,     \* selectedWorktrees
    child,        \* per selected index: the child process as node sees it
    promise,      \* per selected index: the promise of runCommandInWorktree
    processInfos, \* per selected index: [worktree, urls, output]
    summary,      \* what the summary block printed
    line,         \* SpecUrls: the text handed to extractUrls
    lineUrls,     \* SpecUrls: what extractUrls returned
    phase,        \* SpecUrls: "input" | "done"
    shown,        \* SpecLines: what isErrorLine and shouldShowLine returned
    route,        \* SpecRender: the route of the run, <<>> when there is none
    verbose,      \* SpecRender: options.verbose
    data,         \* SpecRender: the chunk handed to onOutput
    console,      \* SpecRender: the lines onOutput wrote
    sections,     \* SpecRender: the URL lines of the summary
    worktreesToRemove, \* SpecRemove: worktreesToRemove
    confirmed,    \* SpecRemove: the answer to the confirmation prompt
    commands,     \* SpecRemove: the git commands issued, with their outcome
    messages,     \* SpecRemove: the removal messages written
    removeAll,    \* SpecRemove: options.all
    removeAt,     \* SpecRemove: the place of wt in worktreesToRemove
    config,       \* SpecConfig: the config object of the invocation
    stored,       \* SpecConfig: the content of the configuration file
    invocations   \* SpecConfig: the number of invocations started

vars ==
    << pc, worktrees, selected, child, promise, processInfos,
       summary, line, lineUrls, phase, shown, route, verbose, data,
       console, sections, worktreesToRemove, confirmed, commands, messages,
       removeAll, removeAt, config, stored, invocations >>

runVars ==
    << pc, worktrees, selected, child, promise, processInfos,
       summary >>

urlVars ==
    << line, lineUrls, phase >>

renderVars ==
    << shown, route, verbose, data, console, sections >>

removeVars ==
    << worktreesToRemove, confirmed, commands, messages, removeAll, removeAt >>

configVars ==
    << config, stored, invocations >>

(***************************************************************************)
(* Bounds                                                                  *)
(***************************************************************************)
MaxWorktrees ==
    2

MaxChunks ==
    2

MaxFrags ==
    3

MaxWords ==
    2

MaxLines ==
    2

MaxRemovable ==
    2

MaxInvocations ==
    2

MaxPieces ==
    2

(***************************************************************************)
(* Characters                                                              *)
(***************************************************************************)
Digits ==
    {"0", "1", "2", "3", "4", "5", "6", "7", "8", "9"}

LowerMap ==
    [A |-> "a", B |-> "b", C |-> "c", D |-> "d", E |-> "e", F |-> "f",
     G |-> "g", H |-> "h", I |-> "i", J |-> "j", K |-> "k", L |-> "l",
     M |-> "m", N |-> "n", O |-> "o", P |-> "p", Q |-> "q", R |-> "r",
     S |-> "s", T |-> "t", U |-> "u", V |-> "v", W |-> "w", X |-> "x",
     Y |-> "y", Z |-> "z"]

\* faulty variant of Fold: the pattern without its i flag
FoldNoCase(c) ==
    c

\* the "i" flag: two characters match when they are equal after case folding
Fold(c) ==
    IF c \in DOMAIN LowerMap THEN LowerMap[c] ELSE c

(***************************************************************************)
(* extractUrls: /https?:\/\/localhost:\d+|http:\/\/127\.0\.0\.1:\d+|       *)
(*               localhost:\d+/gi, then [...new Set(matches)]              *)
(* A matcher returns the position after the match, or 0 when none.         *)
(***************************************************************************)
LitHttp ==
    <<"h", "t", "t", "p">>

LitS ==
    <<"s">>

LitSlashLocalhost ==
    <<":", "/", "/", "l", "o", "c", "a", "l", "h", "o", "s", "t", ":">>

LitHttpLoopback ==
    <<"h", "t", "t", "p", ":", "/", "/",
      "1", "2", "7", ".", "0", ".", "0", ".", "1", ":">>

LitLocalhost ==
    <<"l", "o", "c", "a", "l", "h", "o", "s", "t", ":">>

MatchLit(text, pos, lit) ==
    IF /\ pos >= 1
       /\ pos + Len(lit) - 1 <= Len(text)
       /\ \A k \in 1..Len(lit) : Fold(text[pos + k - 1]) = lit[k]
    THEN pos + Len(lit)
    ELSE 0

RECURSIVE DigitRunEnd(_, _)
\* the position after the longest run of digits that starts at pos
DigitRunEnd(text, pos) ==
    IF pos <= Len(text) /\ text[pos] \in Digits
    THEN DigitRunEnd(text, pos + 1)
    ELSE pos

\* \d+ (greedy): position after the run, 0 when there is no digit at pos
MatchDigits(text, pos) ==
    IF pos = 0 THEN 0
    ELSE LET e == DigitRunEnd(text, pos) IN IF e > pos THEN e ELSE 0

\* https?:\/\/localhost:\d+  (s? tries the "s" first, then backtracks)
MatchAlt1(text, pos) ==
    LET p1 == MatchLit(text, pos, LitHttp)
        rest(p) == MatchDigits(text, MatchLit(text, p, LitSlashLocalhost))
        withS == IF p1 # 0 /\ MatchLit(text, p1, LitS) # 0
                 THEN rest(p1 + 1) ELSE 0
    IN  IF p1 = 0 THEN 0
        ELSE IF withS # 0 THEN withS ELSE rest(p1)

\* http:\/\/127\.0\.0\.1:\d+
MatchAlt2(text, pos) ==
    MatchDigits(text, MatchLit(text, pos, LitHttpLoopback))

\* localhost:\d+
MatchAlt3(text, pos) ==
    MatchDigits(text, MatchLit(text, pos, LitLocalhost))

\* the alternation, tried left to right at one position
MatchAt(text, pos) ==
    LET a1 == MatchAlt1(text, pos)
        a2 == MatchAlt2(text, pos)
    IN  IF a1 # 0 THEN a1
        ELSE IF a2 # 0 THEN a2
        ELSE MatchAlt3(text, pos)

RECURSIVE MatchAll(_, _)
\* String.prototype.match with the "g" flag: the successive non-overlapping
\* matches, scanning from the left
MatchAll(text, pos) ==
    IF pos > Len(text) THEN <<>>
    ELSE LET e == MatchAt(text, pos)
         IN  IF e # 0
             THEN <<SubSeq(text, pos, e - 1)>> \o MatchAll(text, e)
             ELSE MatchAll(text, pos + 1)

Range(s) ==
    {s[k] : k \in 1..Len(s)}

\* host:port of a match, case folded: what follows its last "/"
HostPort(u) ==
    LET slashes == {k \in 1..Len(u) : u[k] = "/"}
        from == IF slashes = {} THEN 1
                ELSE 1 + CHOOSE k \in slashes : \A m \in slashes : m <= k
    IN  [k \in 1..(Len(u) - from + 1) |-> Fold(u[from + k - 1])]

\* faulty variant of Unique: elements equal by host and port count as one
UniqueNormalized(s) ==
    LET firsts == {k \in 1..Len(s) :
                      \A j \in 1..(k - 1) : HostPort(s[j]) # HostPort(s[k])}
    IN  [n \in 1..Cardinality(firsts) |->
            s[CHOOSE k \in firsts : Cardinality({j \in firsts : j <= k}) = n]]

\* [...new Set(s)]: the elements of s, each once, in first-insertion order
\* (a Set keeps an element at the place of its first insertion)
Unique(s) ==
    LET firsts == {k \in 1..Len(s) : \A j \in 1..(k - 1) : s[j] # s[k]}
    IN  [n \in 1..Cardinality(firsts) |->
            s[CHOOSE k \in firsts : Cardinality({j \in firsts : j <= k}) = n]]

extractUrls(text) ==
    Unique(MatchAll(text, 1))

(***************************************************************************)
(* The output chunks a child process may write                             *)
(***************************************************************************)
ChunkPort3 ==
    <<"l", "o", "c", "a", "l", "h", "o", "s", "t", ":", "3">>

\* "ok\nlocalhost:4\nlocalhost:3"
ChunkPort4Port3 ==
    <<"o", "k", "\n",
      "l", "o", "c", "a", "l", "h", "o", "s", "t", ":", "4", "\n",
      "l", "o", "c", "a", "l", "h", "o", "s", "t", ":", "3">>

Chunks ==
    {ChunkPort3, ChunkPort4Port3}

(***************************************************************************)
(* Worktrees, processes and promises                                       *)
(* A worktree is the rank of its branch name under localeCompare.          *)
(***************************************************************************)
Worktrees ==
    1..MaxWorktrees

\* exit statuses a process that was started may end with
ExitCodes ==
    {0, 1}

\* the code of the close event that follows a failed spawn (-errno)
SpawnErrno ==
    -2

NoReason ==
    [kind |-> "none", code |-> 0]

SpawnError ==
    [kind |-> "spawn", code |-> SpawnErrno]

\* new Error(`Command exited with code ${code}`)
ExitError(code) ==
    [kind |-> "exit", code |-> code]

Pending ==
    [status |-> "pending", reason |-> NoReason]

NoChild ==
    [state |-> "none", errored |-> FALSE, code |-> 0]

NoSummary ==
    [printed |-> FALSE, entries |-> <<>>, allUrls |-> <<>>]

\* a list of the configuration: absent, or present with its items
NoList ==
    [present |-> FALSE, items |-> <<>>]

\* the configuration {}: no default (the empty string) and no list
NoConfig ==
    [defaultCommand |-> "", savedCommands |-> NoList,
     defaultRoute |-> "", savedRoutes |-> NoList, filesToCopy |-> NoList]

\* no line has been classified
NoShown ==
    [error |-> FALSE, show |-> FALSE]

\* route is undefined, or the empty string: `if (route)` is false for both
NoRoute ==
    <<>>

\* the summary has not written its URL lines
NoSections ==
    [worktree |-> <<>>, all |-> <<>>]

Indexes ==
    1..Len(selected)

Launched(i) ==
    child[i].state # "none"

Settled(i) ==
    promise[i].status # "pending"

\* distinct sequences over a set, in every order (the order git lists them)
Listings(S) ==
    {p \in [1..Cardinality(S) -> S] : \A a, b \in 1..Cardinality(S) :
        p[a] = p[b] => a = b}

RECURSIVE SortedSeq(_)
\* [...worktrees].sort((a, b) => a.branch.localeCompare(b.branch))
SortedSeq(S) ==
    IF S = {} THEN <<>>
    ELSE LET least == CHOOSE x \in S : \A y \in S : x <= y
         IN  <<least>> \o SortedSeq(S \ {least})

RECURSIVE FlatMap(_, _)
\* processInfos.flatMap((info) => info.urls), for the first n infos
FlatMap(infos, n) ==
    IF n = 0 THEN <<>> ELSE FlatMap(infos, n - 1) \o infos[n].urls

(***************************************************************************)
(* The promise of runCommandInWorktree: resolve and reject settle it once  *)
(***************************************************************************)
\* faulty variant of Reject: one failure fails every pending runner
RejectAll(ps, i, reason) ==
    [k \in DOMAIN ps |->
        IF ps[k].status = "pending"
        THEN [status |-> "rejected", reason |-> reason] ELSE ps[k]]

Resolve(ps, i) ==
    IF ps[i].status = "pending"
    THEN [ps EXCEPT ![i] = [status |-> "fulfilled", reason |-> NoReason]]
    ELSE ps

\* faulty variant of Reject: a settled promise is rejected again
RejectAgain(ps, i, reason) ==
    [ps EXCEPT ![i] = [status |-> "rejected", reason |-> reason]]

Reject(ps, i, reason) ==
    IF ps[i].status = "pending"
    THEN [ps EXCEPT ![i] = [status |-> "rejected", reason |-> reason]]
    ELSE ps

\* faulty variant of CloseHandler: the exit code is ignored
CloseAlwaysResolves(ps, i, code) ==
    Resolve(ps, i)

\* faulty variant of CloseHandler: a failing exit settles nothing
CloseResolvesOnly(ps, i, code) ==
    IF code = 0 THEN Resolve(ps, i) ELSE ps

\* child.on("close", (code) => code === 0 ? resolve() : reject(new Error(...)))
CloseHandler(ps, i, code) ==
    IF code = 0 THEN Resolve(ps, i) ELSE Reject(ps, i, ExitError(code))

(***************************************************************************)
(* runCommand                                                              *)
(***************************************************************************)
\* const { stdout } = await execAsync("git worktree list --porcelain")
ListWorktrees ==
    /\ pc = "start"
    /\ \/ /\ pc' = "exit1"              \* execAsync rejects: catch, exit(1)
          /\ UNCHANGED worktrees
       \/ \E S \in SUBSET Worktrees : \E list \in Listings(S) :
            /\ worktrees' = list
            /\ pc' = IF list = <<>> THEN "noWorktrees" ELSE "select"
    /\ UNCHANGED << selected, child, promise, processInfos,
                    summary, urlVars,
                    renderVars, removeVars, configVars >>

\* faulty variant of AfterSelection: the empty selection is not checked
AfterSelectionUnchecked(sel) ==
    "launching"

\* if (selectedWorktrees.length === 0) { ...; return; }
AfterSelection(sel) ==
    IF Len(sel) = 0 THEN "noSelection" ELSE "launching"

\* options.all, or the checkbox prompt over the sorted worktrees
SelectWorktrees ==
    /\ pc = "select"
    /\ \E all \in BOOLEAN : \E S \in SUBSET Range(worktrees) :
         LET sel == IF all THEN worktrees ELSE SortedSeq(S)
         IN  /\ selected' = sel
             /\ pc' = AfterSelection(sel)
             /\ IF AfterSelection(sel) = "noSelection"
                THEN UNCHANGED << child, promise, processInfos >>
                ELSE /\ processInfos' =
                          [k \in 1..Len(sel) |->
                              [worktree |-> sel[k], urls |-> <<>>, output |-> <<>>]]
                     /\ child' = [k \in 1..Len(sel) |-> NoChild]
                     /\ promise' = [k \in 1..Len(sel) |-> Pending]
    /\ UNCHANGED << worktrees, summary, urlVars,
                    renderVars, removeVars, configVars >>

\* one iteration of selectedWorktrees.map: runCommandInWorktree spawns the
\* child; a throw of spawn inside the promise executor rejects the promise
LaunchNext ==
    /\ pc = "launching"
    /\ \E i \in Indexes :
         /\ ~Launched(i)
         /\ \A k \in 1..(i - 1) : Launched(k)
         /\ \E how \in {"started", "failing", "threw"} :
              /\ child' = [child EXCEPT ![i].state = how]
              /\ promise' = IF how = "threw"
                            THEN Reject(promise, i, SpawnError) ELSE promise
    /\ UNCHANGED << pc, worktrees, selected, processInfos, summary, urlVars,
                    renderVars, removeVars, configVars >>

\* const results = await Promise.allSettled(runPromises): runCommand suspends
AwaitAllSettled ==
    /\ pc = "launching"
    /\ \A i \in Indexes : Launched(i)
    /\ pc' = "waiting"
    /\ UNCHANGED << worktrees, selected, child, promise, processInfos,
                    summary, urlVars,
                    renderVars, removeVars, configVars >>

\* faulty variant of EventLoopFree: handlers run between two launches
EventLoopEarly ==
    pc \in {"launching", "waiting"}

\* handlers run only while runCommand is suspended at its await
EventLoopFree ==
    pc = "waiting"

TotalChunks ==
    Len(FlatMap([k \in Indexes |-> [urls |-> processInfos[k].output]],
                Len(selected)))

\* faulty variant of OnData: the worktrees share one urls and output array
OnDataShared(i) ==
    /\ EventLoopFree
    /\ child[i].state = "started"
    /\ TotalChunks < MaxChunks
    /\ \E chunk \in Chunks :
         processInfos' =
             [k \in DOMAIN processInfos |->
                 [processInfos[k] EXCEPT
                    !.output = Append(@, chunk),
                    !.urls = @ \o extractUrls(chunk)]]
    /\ UNCHANGED << pc, worktrees, selected, child, promise,
                    summary, urlVars,
                    renderVars, removeVars, configVars >>

\* child.stdout.on("data") / child.stderr.on("data") -> onOutput(chunk)
OnData(i) ==
    /\ EventLoopFree
    /\ child[i].state = "started"
    /\ TotalChunks < MaxChunks
    /\ \E chunk \in Chunks :
         processInfos' =
             [processInfos EXCEPT
                ![i].output = Append(@, chunk),
                ![i].urls = @ \o extractUrls(chunk)]
    /\ UNCHANGED << pc, worktrees, selected, child, promise,
                    summary, urlVars,
                    renderVars, removeVars, configVars >>

\* faulty variant of OnClose: the runner settles when the process exits,
\* while its output streams are still open
OnCloseAtExit(i) ==
    /\ EventLoopFree
    /\ child[i].state = "started"
    /\ promise[i].status = "pending"
    /\ \E code \in ExitCodes :
         /\ child' = [child EXCEPT ![i].code = code]
         /\ promise' = CloseHandler(promise, i, code)
    /\ UNCHANGED << pc, worktrees, selected, processInfos, summary, urlVars,
                    renderVars, removeVars, configVars >>

\* child.on("close", (code) => ...) of a process that was started
OnClose(i) ==
    /\ EventLoopFree
    /\ child[i].state = "started"
    /\ \E code \in ExitCodes :
         /\ child' = [child EXCEPT ![i].state = "closed", ![i].code = code]
         /\ promise' = CloseHandler(promise, i, code)
    /\ UNCHANGED << pc, worktrees, selected, processInfos, summary, urlVars,
                    renderVars, removeVars, configVars >>

\* child.on("error", (error) => ...): the spawn failed
OnError(i) ==
    /\ EventLoopFree
    /\ child[i].state = "failing"
    /\ child' = [child EXCEPT ![i].state = "errored", ![i].errored = TRUE]
    /\ promise' = Reject(promise, i, SpawnError)
    /\ UNCHANGED << pc, worktrees, selected, processInfos, summary, urlVars,
                    renderVars, removeVars, configVars >>

\* the close event node emits after the error event of a failed spawn
OnCloseAfterError(i) ==
    /\ EventLoopFree
    /\ child[i].state = "errored"
    /\ child' = [child EXCEPT ![i].state = "closed", ![i].code = SpawnErrno]
    /\ promise' = CloseHandler(promise, i, SpawnErrno)
    /\ UNCHANGED << pc, worktrees, selected, processInfos, summary, urlVars,
                    renderVars, removeVars, configVars >>

\* faulty variant of AllSettled: the wait ends with the first settled runner
AnySettled(ps) ==
    \E k \in DOMAIN ps : ps[k].status # "pending"

\* faulty variant of AllSettled: the wait ends only when every runner succeeded
AllFulfilled(ps) ==
    \A k \in DOMAIN ps : ps[k].status = "fulfilled"

\* Promise.allSettled(runPromises) fulfils when no promise is pending
AllSettled(ps) ==
    \A k \in DOMAIN ps : ps[k].status # "pending"

\* faulty variant of Entry: the entries are taken from the last to the first
EntryReversed(infos, results, index) ==
    LET at == Len(infos) + 1 - index
    IN  [worktree |-> infos[at].worktree,
         ok |-> results[at].status = "fulfilled",
         urls |-> Unique(infos[at].urls),
         error |-> IF results[at].status = "rejected"
                   THEN results[at].reason ELSE NoReason]

\* faulty variant of Entry: a failed worktree's entry lists no URL
EntryFailedNoUrls(infos, results, index) ==
    [worktree |-> infos[index].worktree,
     ok |-> results[index].status = "fulfilled",
     urls |-> IF results[index].status = "fulfilled"
              THEN Unique(infos[index].urls) ELSE <<>>,
     error |-> IF results[index].status = "rejected"
               THEN results[index].reason ELSE NoReason]

\* one iteration of processInfos.forEach((info, index) => ...)
Entry(infos, results, index) ==
    [worktree |-> infos[index].worktree,
     ok |-> results[index].status = "fulfilled",
     urls |-> Unique(infos[index].urls),
     error |-> IF results[index].status = "rejected"
               THEN results[index].reason ELSE NoReason]

\* faulty variant of AllUrls: the URLs are not deduplicated
AllUrlsKeepDuplicates(infos) ==
    FlatMap(infos, Len(infos))

\* const uniqueUrls = [...new Set(processInfos.flatMap((info) => info.urls))]
AllUrls(infos) ==
    Unique(FlatMap(infos, Len(infos)))

\* the continuation of the await: the summary block, printed in one go
PrintSummary ==
    /\ pc = "waiting"
    /\ AllSettled(promise)
    /\ summary' = [printed |-> TRUE,
                   entries |-> [k \in 1..Len(processInfos) |->
                                   Entry(processInfos, promise, k)],
                   allUrls |-> AllUrls(processInfos)]
    /\ pc' = "done"
    /\ UNCHANGED << worktrees, selected, child, promise, processInfos,
                    urlVars,
                    renderVars, removeVars, configVars >>

Init ==
    /\ pc = "start"
    /\ worktrees = <<>>
    /\ selected = <<>>
    /\ child = <<>>
    /\ promise = <<>>
    /\ processInfos = <<>>
    /\ summary = NoSummary
    /\ line = <<>>
    /\ lineUrls = <<>>
    /\ phase = "idle"
    /\ shown = NoShown
    /\ route = NoRoute
    /\ verbose = FALSE
    /\ data = <<>>
    /\ console = <<>>
    /\ sections = NoSections
    /\ worktreesToRemove = <<>>
    /\ confirmed = FALSE
    /\ commands = <<>>
    /\ messages = <<>>
    /\ removeAll = FALSE
    /\ removeAt = 0
    /\ config = NoConfig
    /\ stored = NoConfig
    /\ invocations = 0

Next ==
    \/ ListWorktrees
    \/ SelectWorktrees
    \/ LaunchNext
    \/ AwaitAllSettled
    \/ \E i \in Indexes : OnData(i)
    \/ \E i \in Indexes : OnClose(i)
    \/ \E i \in Indexes : OnError(i)
    \/ \E i \in Indexes : OnCloseAfterError(i)
    \/ PrintSummary

Spec ==
    Init /\ [][Next]_vars

\* the event loop runs every continuation and handler that is ready
FairSpec ==
    /\ Spec
    /\ WF_vars(LaunchNext)
    /\ WF_vars(AwaitAllSettled)
    /\ WF_vars(PrintSummary)

(***************************************************************************)
(* SpecUrls: extractUrls applied to lines built from fragments             *)
(***************************************************************************)
FragHttp ==
    <<"h", "t", "t", "p", ":", "/", "/">>

FragHttps ==
    <<"h", "t", "t", "p", "s", ":", "/", "/">>

FragLocalhost ==
    <<"l", "o", "c", "a", "l", "h", "o", "s", "t", ":">>

FragLocalhostUpper ==
    <<"L", "O", "C", "A", "L", "H", "O", "S", "T", ":">>

FragLoopback ==
    <<"1", "2", "7", ".", "0", ".", "0", ".", "1", ":">>

FragHttpLocalhost3 ==
    <<"h", "t", "t", "p", ":", "/", "/",
      "l", "o", "c", "a", "l", "h", "o", "s", "t", ":", "3">>

Fragments ==
    {FragHttp, FragHttps, FragLocalhost, FragLocalhostUpper, FragLoopback,
     FragHttpLocalhost3, <<"3">>, <<"0">>, <<" ">>}

\* "Server on http://localhost:3000 and LOCALHOST:3000"
LineServerOn ==
    <<"S", "e", "r", "v", "e", "r", " ", "o", "n", " ",
      "h", "t", "t", "p", ":", "/", "/",
      "l", "o", "c", "a", "l", "h", "o", "s", "t", ":", "3", "0", "0", "0",
      " ", "a", "n", "d", " ",
      "L", "O", "C", "A", "L", "H", "O", "S", "T", ":", "3", "0", "0", "0">>

\* "http://localhost:3000 and localhost:3000 and http://localhost:3000"
LineBothPrefixes ==
    <<"h", "t", "t", "p", ":", "/", "/",
      "l", "o", "c", "a", "l", "h", "o", "s", "t", ":", "3", "0", "0", "0",
      " ", "a", "n", "d", " ",
      "l", "o", "c", "a", "l", "h", "o", "s", "t", ":", "3", "0", "0", "0",
      " ", "a", "n", "d", " ",
      "h", "t", "t", "p", ":", "/", "/",
      "l", "o", "c", "a", "l", "h", "o", "s", "t", ":", "3", "0", "0", "0">>

RECURSIVE FragTexts(_)
\* the lines made of at most n fragments
FragTexts(n) ==
    IF n = 0 THEN {<<>>}
    ELSE LET shorter == FragTexts(n - 1)
         IN  shorter \cup {t \o f : t \in shorter, f \in Fragments}

Lines ==
    FragTexts(MaxFrags) \cup {LineServerOn, LineBothPrefixes}

InitUrls ==
    /\ pc = "idle"
    /\ worktrees = <<>>
    /\ selected = <<>>
    /\ child = <<>>
    /\ promise = <<>>
    /\ processInfos = <<>>
    /\ summary = NoSummary
    /\ line \in Lines
    /\ lineUrls = <<>>
    /\ phase = "input"
    /\ shown = NoShown
    /\ route = NoRoute
    /\ verbose = FALSE
    /\ data = <<>>
    /\ console = <<>>
    /\ sections = NoSections
    /\ worktreesToRemove = <<>>
    /\ confirmed = FALSE
    /\ commands = <<>>
    /\ messages = <<>>
    /\ removeAll = FALSE
    /\ removeAt = 0
    /\ config = NoConfig
    /\ stored = NoConfig
    /\ invocations = 0

\* const urls = extractUrls(line)
ExtractLine ==
    /\ phase = "input"
    /\ lineUrls' = extractUrls(line)
    /\ phase' = "done"
    /\ UNCHANGED << line, runVars, renderVars, removeVars, configVars >>

NextUrls ==
    ExtractLine

SpecUrls ==
    InitUrls /\ [][NextUrls]_vars

(***************************************************************************)
(* The URL patterns, stated on their own: a URL is one of four prefixes    *)
(* (compared without case) followed by one or more digits.                 *)
(***************************************************************************)
UrlPrefixes ==
    {FragHttp \o FragLocalhost, FragHttps \o FragLocalhost,
     FragHttp \o FragLoopback, FragLocalhost}

Lowered(t) ==
    [k \in 1..Len(t) |->
        IF t[k] \in DOMAIN LowerMap THEN LowerMap[t[k]] ELSE t[k]]

IsUrl(u) ==
    \E pre \in UrlPrefixes :
        /\ Len(u) > Len(pre)
        /\ SubSeq(Lowered(u), 1, Len(pre)) = pre
        /\ \A k \in (Len(pre) + 1)..Len(u) : u[k] \in Digits

\* the places <<p, q>> of text that hold a URL
Occurrences(text) ==
    {pq \in (1..Len(text)) \X (1..Len(text)) :
        /\ pq[1] < pq[2]
        /\ Lowered(text)[pq[1]] \in {"h", "l"}
        /\ text[pq[2]] \in Digits
        /\ IsUrl(SubSeq(text, pq[1], pq[2]))}

\* those not contained in a longer one: the whole scheme and the whole port
MaximalOccurrences(text) ==
    LET occ == Occurrences(text)
    IN  {pq \in occ : \A other \in occ :
            (other[1] <= pq[1] /\ pq[2] <= other[2]) => other = pq}

FirstPlace(text, u) ==
    LET at == {pq[1] : pq \in {x \in MaximalOccurrences(text) :
                                   SubSeq(text, x[1], x[2]) = u}}
    IN  CHOOSE p \in at : \A other \in at : p <= other

NoDuplicates(s) ==
    \A a, b \in 1..Len(s) : s[a] = s[b] => a = b

Url3000 ==
    <<"h", "t", "t", "p", ":", "/", "/",
      "l", "o", "c", "a", "l", "h", "o", "s", "t", ":", "3", "0", "0", "0">>

Bare3000 ==
    <<"l", "o", "c", "a", "l", "h", "o", "s", "t", ":", "3", "0", "0", "0">>

BareUpper3000 ==
    <<"L", "O", "C", "A", "L", "H", "O", "S", "T", ":", "3", "0", "0", "0">>

\* C9: extractUrls returns exactly the substrings of the line that match one
\* of the four URL forms (case-insensitively, with the whole port), each once
\* by exact string equality, in the order of their first occurrence; so
\* http://localhost:3000 and localhost:3000 in one text are both returned.
C9_ExtractUrlsExact ==
    phase = "done" =>
        /\ Range(lineUrls) =
              {SubSeq(line, pq[1], pq[2]) : pq \in MaximalOccurrences(line)}
        /\ NoDuplicates(lineUrls)
        /\ \A a, b \in 1..Len(lineUrls) :
              a < b => FirstPlace(line, lineUrls[a]) < FirstPlace(line, lineUrls[b])
        /\ line = LineBothPrefixes => lineUrls = <<Url3000, Bare3000>>

\* C9 witness: a line holding http://localhost:3000 twice and localhost:3000
\* once has been classified, and both forms were returned, each once
C9_Witness ==
    /\ phase = "done"
    /\ line = LineBothPrefixes
    /\ Cardinality(MaximalOccurrences(line)) = 3
    /\ lineUrls = <<Url3000, Bare3000>>

\* C10 as claimed: two matches with the same host and port that differ only
\* in letter case or prefix count as one, and "Server on http://localhost:3000
\* and LOCALHOST:3000" gives exactly ["http://localhost:3000"].
C10_AsClaimed ==
    phase = "done" =>
        /\ \A a, b \in 1..Len(lineUrls) :
              HostPort(lineUrls[a]) = HostPort(lineUrls[b]) => a = b
        /\ line = LineServerOn => lineUrls = <<Url3000>>

\* C10 amended: matches are duplicates only when they are the same string; a
\* second match of the same host and port in another letter case or with
\* another prefix is returned too, and "Server on http://localhost:3000 and
\* LOCALHOST:3000" gives ["http://localhost:3000", "LOCALHOST:3000"].
C10_ExactStringDedup ==
    phase = "done" =>
        /\ \A a, b \in 1..Len(MatchAll(line, 1)) :
              LET m == MatchAll(line, 1)
              IN  m[a] # m[b] => {m[a], m[b]} \subseteq Range(lineUrls)
        /\ line = LineServerOn => lineUrls = <<Url3000, BareUpper3000>>

\* C10 witness: the line of the claim has been classified
C10_Witness ==
    /\ phase = "done"
    /\ line = LineServerOn
    /\ Len(lineUrls) = 2

(***************************************************************************)
(* The run: claims                                                         *)
(***************************************************************************)
\* the process of index i was started and has ended with this exit status
ExitedWith(i, code) ==
    /\ child[i].state = "closed"
    /\ ~child[i].errored
    /\ child[i].code = code

\* the process of index i could not be started
SpawnFailed(i) ==
    child[i].state \in {"threw", "errored"} \/ child[i].errored

\* an output chunk or an exit or error event of index i has been handled
Handled(i) ==
    processInfos[i].output # <<>> \/ child[i].state \in {"errored", "closed"}

Failed(i) ==
    promise[i].status = "rejected"

Succeeded(i) ==
    promise[i].status = "fulfilled"

\* C1: a step that settles or changes one worktree's outcome is a step of that
\* worktree's own process and leaves every other worktree's process and
\* outcome as they were, and a worktree whose process has exited has the
\* outcome of its own exit status whatever the others did: with exits 1 and 0
\* the outcomes are (Failed, Succeeded).
C1_FailureIsolated ==
    /\ [][\A j \in DOMAIN promise :
            (j \in DOMAIN promise' /\ promise'[j] # promise[j]) =>
                /\ child'[j] # child[j]
                /\ \A k \in DOMAIN promise \ {j} :
                      promise'[k] = promise[k] /\ child'[k] = child[k]]_vars
    /\ [](\A i \in Indexes : \A code \in ExitCodes :
            ExitedWith(i, code) => (Succeeded(i) <=> code = 0)
                                   /\ (Failed(i) <=> code # 0))

\* C1 witness: of two processes the first exited 1 and the second exited 0,
\* and the outcomes are (Failed, Succeeded)
C1_Witness ==
    /\ Len(selected) = 2
    /\ ExitedWith(1, 1) /\ Failed(1)
    /\ ExitedWith(2, 0) /\ Succeeded(2)

\* C2: when the summary has been printed no runner is pending and no child
\* process is still to exit or to report its error.
C2_SummaryAfterAllSettle ==
    summary.printed =>
        \A i \in Indexes :
            /\ Settled(i)
            /\ child[i].state \notin {"none", "started", "failing"}

\* C2 witness: one runner failed, another succeeded, and the summary was
\* printed after both
C2_Witness ==
    /\ summary.printed
    /\ \E i, j \in Indexes : Failed(i) /\ Succeeded(j)

\* C3: once every selected worktree's process has exited or failed to start,
\* the summary is eventually printed, with one entry for each selected
\* worktree.
C3_SummaryEventually ==
    (/\ pc \in {"launching", "waiting"}
     /\ \A i \in Indexes : child[i].state \in {"threw", "errored", "closed"})
    ~> (/\ summary.printed
        /\ Len(summary.entries) = Len(selected)
        /\ \A k \in Indexes : summary.entries[k].worktree = selected[k])

\* C3 witness: a summary of several entries, after a failure
C3_Witness ==
    /\ pc = "done"
    /\ Len(summary.entries) = Len(selected)
    /\ Len(selected) >= 2
    /\ \E i \in Indexes : Failed(i)

\* C4: when the coordinator waits, or any chunk, exit or error of any process
\* has been handled, every selected worktree's process has been launched; and
\* while one is still to be launched the next launch is enabled, whatever the
\* number and the state of those already running.
C4_AllLaunchedFirst ==
    /\ (pc = "waiting" \/ \E i \in Indexes : Handled(i)) =>
           \A j \in Indexes : Launched(j)
    /\ (pc = "launching" /\ \E j \in Indexes : ~Launched(j)) =>
           ENABLED LaunchNext

\* C4 witness: as many processes as worktrees are running at once, and no
\* event of any of them has been handled yet
C4_Witness ==
    /\ pc = "waiting"
    /\ Len(selected) = MaxWorktrees
    /\ \A i \in Indexes : child[i].state = "started" /\ ~Handled(i)

\* C5: the summary has one entry per position of the selection, entry k names
\* the worktree selected at position k and shows the outcome of that
\* worktree's own process.
C5_SummaryInSelectionOrder ==
    summary.printed =>
        /\ Len(summary.entries) = Len(selected)
        /\ \A k \in Indexes :
              /\ summary.entries[k].worktree = selected[k]
              /\ summary.entries[k].ok <=> ExitedWith(k, 0)
              /\ \A code \in ExitCodes \ {0} :
                    ExitedWith(k, code) =>
                        summary.entries[k].error = ExitError(code)
              /\ SpawnFailed(k) => summary.entries[k].error = SpawnError

\* C5 witness: the selection is not in branch order, the two processes ended
\* differently, and the summary lists the first selected worktree first
C5_Witness ==
    /\ summary.printed
    /\ selected = <<2, 1>>
    /\ summary.entries[1].worktree = 2 /\ summary.entries[1].ok
    /\ summary.entries[2].worktree = 1 /\ ~summary.entries[2].ok

\* the first worktree, in selection order, that collected the URL
FirstWorktree(u) ==
    CHOOSE k \in Indexes :
        /\ u \in Range(processInfos[k].urls)
        /\ \A m \in 1..(k - 1) : u \notin Range(processInfos[m].urls)

\* the first place of the URL in that worktree's collection
FirstIndex(u) ==
    LET urls == processInfos[FirstWorktree(u)].urls
    IN  CHOOSE a \in 1..Len(urls) :
            urls[a] = u /\ \A b \in 1..(a - 1) : urls[b] # u

\* C6: the global section lists the URLs collected by at least one worktree
\* and no other, each once, in the order of their first occurrence when the
\* worktrees are scanned in selection order.
C6_GlobalUrls ==
    summary.printed =>
        /\ Range(summary.allUrls) =
              UNION {Range(processInfos[k].urls) : k \in Indexes}
        /\ NoDuplicates(summary.allUrls)
        /\ \A a, b \in 1..Len(summary.allUrls) :
              a < b =>
                 LET u == summary.allUrls[a]
                     v == summary.allUrls[b]
                 IN  \/ FirstWorktree(u) < FirstWorktree(v)
                     \/ /\ FirstWorktree(u) = FirstWorktree(v)
                        /\ FirstIndex(u) < FirstIndex(v)

\* C6 witness: both worktrees collected the URL of port 3, the first one
\* after the URL of port 4, and the global section lists port 4 then port 3
C6_Witness ==
    /\ summary.printed
    /\ Len(selected) = 2
    /\ processInfos[1].output = <<ChunkPort4Port3>>
    /\ processInfos[2].output = <<ChunkPort3>>
    /\ Len(summary.allUrls) = 2
    /\ summary.allUrls[2] = ChunkPort3

\* C7: a runner is Succeeded exactly when its process ended with status 0,
\* Failed with the exit code when it ended with another status, Failed with
\* the spawn error when the process could not be started; and a runner that
\* exists never sends runCommand to its error exit.
C7_RunnerOutcome ==
    /\ \A i \in Indexes :
          /\ Succeeded(i) <=> ExitedWith(i, 0)
          /\ \A code \in ExitCodes \ {0} :
                ExitedWith(i, code) => promise[i] =
                    [status |-> "rejected", reason |-> ExitError(code)]
          /\ SpawnFailed(i) => promise[i] =
                    [status |-> "rejected", reason |-> SpawnError]
          /\ Failed(i) => SpawnFailed(i) \/ \E code \in ExitCodes \ {0} :
                                               ExitedWith(i, code)
    /\ selected # <<>> => pc \in {"launching", "waiting", "done"}

\* C7 witness: one runner failed with exit code 1; another could not start its
\* process, and the close event after the error left the spawn error in place
C7_Witness ==
    \E i, j \in Indexes :
        /\ ExitedWith(i, 1)
        /\ promise[i].reason = ExitError(1)
        /\ child[j].state = "closed" /\ child[j].errored
        /\ promise[j].reason = SpawnError

\* C8: an empty selection ends the run: no process exists, no summary is
\* printed, no further step is taken; a launch, the wait and the summary
\* happen only with a selection that is not empty.
C8_EmptySelection ==
    /\ [](pc = "noSelection" =>
            selected = <<>> /\ child = <<>> /\ ~summary.printed)
    /\ [](pc \in {"launching", "waiting", "done"} => selected # <<>>)
    /\ [][pc # "noSelection"]_vars

\* C8 witness: there were worktrees and none was selected
C8_Witness ==
    /\ pc = "noSelection"
    /\ worktrees # <<>>
    /\ selected = <<>>

(***************************************************************************)
(* isErrorLine and shouldShowLine                                          *)
(***************************************************************************)
\* faulty variant of toLowerCase: the text is compared as it is
toLowerCaseNone(text) ==
    text

\* String.prototype.toLowerCase
toLowerCase(text) ==
    [k \in 1..Len(text) |->
        IF text[k] \in DOMAIN LowerMap THEN LowerMap[text[k]] ELSE text[k]]

\* String.prototype.includes
includes(text, keyword) ==
    \E p \in 1..(Len(text) - Len(keyword) + 1) :
        SubSeq(text, p, p + Len(keyword) - 1) = keyword

\* keywords.some((keyword) => lowerText.includes(keyword))
some(keywords, lowerText) ==
    \E k \in 1..Len(keywords) : includes(lowerText, keywords[k])

errorKeywords ==
    << <<"e", "r", "r", "o", "r">>,
       <<"f", "a", "i", "l", "e", "d">>,
       <<"f", "a", "i", "l", "u", "r", "e">>,
       <<"e", "x", "c", "e", "p", "t", "i", "o", "n">>,
       <<"f", "a", "t", "a", "l">>,
       <<"c", "a", "n", "n", "o", "t">>,
       <<"u", "n", "a", "b", "l", "e", " ", "t", "o">>,
       <<"n", "o", "t", " ", "f", "o", "u", "n", "d">>,
       <<"e", "n", "o", "e", "n", "t">>,
       <<"e", "a", "c", "c", "e", "s">>,
       <<"w", "a", "r", "n">>,
       <<"w", "a", "r", "n", "i", "n", "g">> >>

isErrorLine(text) ==
    LET lowerText == toLowerCase(text)
    IN  some(errorKeywords, lowerText)

importantKeywords ==
    << <<"r", "e", "a", "d", "y">>,
       <<"l", "i", "s", "t", "e", "n", "i", "n", "g">>,
       <<"s", "t", "a", "r", "t", "e", "d">>,
       <<"r", "u", "n", "n", "i", "n", "g", " ", "o", "n">>,
       <<"a", "v", "a", "i", "l", "a", "b", "l", "e", " ", "o", "n">>,
       <<"l", "o", "c", "a", "l", ":">>,
       <<"s", "e", "r", "v", "e", "r", " ", "r", "u", "n", "n", "i", "n",
         "g">> >>

\* faulty variant of shouldShowLine: the error check is left out
shouldShowLineNoErrors(ln) ==
    \/ Len(extractUrls(ln)) > 0
    \/ some(importantKeywords, toLowerCase(ln))

shouldShowLine(ln) ==
    IF Len(extractUrls(ln)) > 0 THEN TRUE
    ELSE IF isErrorLine(ln) THEN TRUE
    ELSE LET lowerLine == toLowerCase(ln)
         IN  IF some(importantKeywords, lowerLine) THEN TRUE ELSE FALSE

(***************************************************************************)
(* SpecLines: isErrorLine and shouldShowLine applied to lines made of      *)
(* words; a keyword may be written in one word or come from two            *)
(***************************************************************************)
\* "Build completed successfully"
LineBuildCompleted ==
    <<"B", "u", "i", "l", "d", " ", "c", "o", "m", "p", "l", "e", "t", "e",
      "d", " ", "s", "u", "c", "c", "e", "s", "s", "f", "u", "l", "l", "y">>

Words ==
    { <<"e", "r", "r", "o", "r">>,
      <<"F", "a", "i", "l", "e", "d">>,
      <<"f", "a", "i", "l", "u", "r", "e">>,
      <<"E", "X", "C", "E", "P", "T", "I", "O", "N">>,
      <<"f", "a", "t", "a", "l">>,
      <<"c", "a", "n", "n", "o", "t">>,
      <<"u", "n", "a", "b", "l", "e", " ">>,
      <<"t", "o">>,
      <<"n", "o", "t", " ">>,
      <<"f", "o", "u", "n", "d">>,
      <<"E", "N", "O", "E", "N", "T">>,
      <<"e", "a", "c", "c", "e", "s">>,
      <<"w", "a", "r", "n">>,
      <<"i", "n", "g">>,
      <<"E", "R", "R">>,
      <<"O", "R">>,
      <<"r", "e", "a", "d", "y">>,
      <<"L", "i", "s", "t", "e", "n", "i", "n", "g">>,
      <<"s", "t", "a", "r", "t", "e", "d">>,
      <<"r", "u", "n", "n", "i", "n", "g", " ">>,
      <<"o", "n">>,
      <<"a", "v", "a", "i", "l", "a", "b", "l", "e", " ">>,
      <<"l", "o", "c", "a", "l">>,
      <<":">>,
      <<"s", "e", "r", "v", "e", "r", " ">>,
      <<"l", "o", "c", "a", "l", "h", "o", "s", "t", ":", "3">>,
      <<" ">> }

RECURSIVE WordTexts(_)
\* the lines made of at most n words
WordTexts(n) ==
    IF n = 0 THEN {<<>>}
    ELSE LET shorter == WordTexts(n - 1)
         IN  shorter \cup {t \o w : t \in shorter, w \in Words}

WordLines ==
    WordTexts(MaxWords) \cup {LineBuildCompleted}

InitLines ==
    /\ pc = "idle"
    /\ worktrees = <<>>
    /\ selected = <<>>
    /\ child = <<>>
    /\ promise = <<>>
    /\ processInfos = <<>>
    /\ summary = NoSummary
    /\ line \in WordLines
    /\ lineUrls = <<>>
    /\ phase = "line"
    /\ shown = NoShown
    /\ route = NoRoute
    /\ verbose = FALSE
    /\ data = <<>>
    /\ console = <<>>
    /\ sections = NoSections
    /\ worktreesToRemove = <<>>
    /\ confirmed = FALSE
    /\ commands = <<>>
    /\ messages = <<>>
    /\ removeAll = FALSE
    /\ removeAt = 0
    /\ config = NoConfig
    /\ stored = NoConfig
    /\ invocations = 0

\* isErrorLine(line) and shouldShowLine(line)
ClassifyLine ==
    /\ phase = "line"
    /\ shown' = [error |-> isErrorLine(line), show |-> shouldShowLine(line)]
    /\ phase' = "classified"
    /\ UNCHANGED << runVars, line, lineUrls, route, verbose, data, console,
                    sections, removeVars, configVars >>

NextLines ==
    ClassifyLine

SpecLines ==
    InitLines /\ [][NextLines]_vars

(***************************************************************************)
(* The line classifiers: claims                                            *)
(***************************************************************************)
ErrorVocabulary ==
    { <<"e", "r", "r", "o", "r">>,
      <<"f", "a", "i", "l", "e", "d">>,
      <<"f", "a", "i", "l", "u", "r", "e">>,
      <<"e", "x", "c", "e", "p", "t", "i", "o", "n">>,
      <<"f", "a", "t", "a", "l">>,
      <<"c", "a", "n", "n", "o", "t">>,
      <<"u", "n", "a", "b", "l", "e", " ", "t", "o">>,
      <<"n", "o", "t", " ", "f", "o", "u", "n", "d">>,
      <<"e", "n", "o", "e", "n", "t">>,
      <<"e", "a", "c", "c", "e", "s">>,
      <<"w", "a", "r", "n">>,
      <<"w", "a", "r", "n", "i", "n", "g">> }

ImportantVocabulary ==
    { <<"r", "e", "a", "d", "y">>,
      <<"l", "i", "s", "t", "e", "n", "i", "n", "g">>,
      <<"s", "t", "a", "r", "t", "e", "d">>,
      <<"r", "u", "n", "n", "i", "n", "g", " ", "o", "n">>,
      <<"a", "v", "a", "i", "l", "a", "b", "l", "e", " ", "o", "n">>,
      <<"l", "o", "c", "a", "l", ":">>,
      <<"s", "e", "r", "v", "e", "r", " ", "r", "u", "n", "n", "i", "n", "g">> }

\* the word occurs in the text as a substring
Contains(text, word) ==
    \E p \in 1..Len(text) :
        /\ p + Len(word) - 1 <= Len(text)
        /\ \A k \in 1..Len(word) : text[p + k - 1] = word[k]

\* C11: isErrorLine is true exactly when the lower-cased line contains one of
\* error, failed, failure, exception, fatal, cannot, "unable to", "not found",
\* enoent, eacces, warn, warning; it is false for "Build completed
\* successfully".
C11_IsErrorLine ==
    phase = "classified" =>
        /\ shown.error <=>
              \E word \in ErrorVocabulary : Contains(Lowered(line), word)
        /\ line = LineBuildCompleted => ~shown.error

\* C11 witness: a line that holds a keyword in capital letters only, made of
\* two words, was classified as an error line
C11_Witness ==
    /\ phase = "classified"
    /\ shown.error
    /\ line = <<"E", "R", "R", "O", "R">>

\* C12: shouldShowLine is true exactly when the line holds a URL, or is an
\* error line, or its lower-cased text contains one of ready, listening,
\* started, "running on", "available on", "local:", "server running".
C12_ShouldShowLine ==
    phase = "classified" =>
        (shown.show <=>
            \/ MaximalOccurrences(line) # {}
            \/ \E word \in ErrorVocabulary : Contains(Lowered(line), word)
            \/ \E word \in ImportantVocabulary : Contains(Lowered(line), word))

\* C12 witness: a line that holds no URL and no ready message was shown
\* because it is an error line
C12_Witness ==
    /\ phase = "classified"
    /\ shown.show
    /\ shown.error
    /\ MaximalOccurrences(line) = {}
    /\ \A word \in ImportantVocabulary : ~Contains(Lowered(line), word)

(***************************************************************************)
(* onOutput: the lines of a chunk written to the console                   *)
(* A written line is [tag, style, text]: the tag is the worktree of the    *)
(* [branch] prefix, the style is "plain", "red", "green" or "route".       *)
(***************************************************************************)
\* the white space String.prototype.trim removes
Whitespace ==
    {" ", "\t", "\r", "\n"}

\* faulty variant of trim: the line is taken as it is
trimNone(ln) ==
    ln

\* String.prototype.trim
trim(ln) ==
    LET inked == {k \in 1..Len(ln) : ln[k] \notin Whitespace}
    IN  IF inked = {} THEN <<>>
        ELSE SubSeq(ln, CHOOSE a \in inked : \A k \in inked : a <= k,
                        CHOOSE b \in inked : \A k \in inked : k <= b)

RECURSIVE split(_)
\* chunk.split("\n")
split(text) ==
    LET breaks == {p \in 1..Len(text) : text[p] = "\n"}
    IN  IF breaks = {} THEN <<text>>
        ELSE LET b == CHOOSE p \in breaks : \A q \in breaks : p <= q
             IN  <<SubSeq(text, 1, b - 1)>>
                     \o split(SubSeq(text, b + 1, Len(text)))

\* faulty variant of NormalizedRoute: the route is appended as it was given
NormalizedRouteRaw(rt) ==
    rt

\* route.startsWith("/") ? route : `/${route}`
NormalizedRoute(rt) ==
    IF Len(rt) >= 1 /\ rt[1] = "/" THEN rt ELSE <<"/">> \o rt

RECURSIVE RouteLines(_, _, _)
\* lineUrls.forEach((url) => console.log(`${prefix} ┃ Route  ${routeUrl}`))
RouteLines(tag, urls, rt) ==
    IF urls = <<>> THEN <<>>
    ELSE <<[tag |-> tag, style |-> "route",
            text |-> Head(urls) \o NormalizedRoute(rt)]>>
             \o RouteLines(tag, Tail(urls), rt)

\* the body of chunk.split("\n").forEach((line) => ...)
RenderLine(tag, ln, vb, rt) ==
    LET trimmedLine == trim(ln)
    IN  IF trimmedLine = <<>> THEN <<>>
        ELSE IF vb THEN <<[tag |-> tag, style |-> "plain", text |-> ln]>>
        ELSE IF ~shouldShowLine(trimmedLine) THEN <<>>
        ELSE IF isErrorLine(trimmedLine)
             THEN <<[tag |-> tag, style |-> "red", text |-> ln]>>
        ELSE IF Len(extractUrls(trimmedLine)) > 0
             THEN <<[tag |-> tag, style |-> "green", text |-> ln]>>
                      \o (IF rt # NoRoute
                          THEN RouteLines(tag, extractUrls(trimmedLine), rt)
                          ELSE <<>>)
        ELSE <<[tag |-> tag, style |-> "plain", text |-> ln]>>

RECURSIVE RenderLines(_, _, _, _)
RenderLines(tag, lns, vb, rt) ==
    IF lns = <<>> THEN <<>>
    ELSE RenderLine(tag, Head(lns), vb, rt)
             \o RenderLines(tag, Tail(lns), vb, rt)

RECURSIVE UrlLines(_, _)
\* uniqueUrls.forEach((url) => ...) of the summary: the URL, then its route
\* variant if (route)
UrlLines(uniqueUrls, rt) ==
    IF uniqueUrls = <<>> THEN <<>>
    ELSE <<[style |-> "url", text |-> Head(uniqueUrls)]>>
             \o (IF rt # NoRoute
                 THEN <<[style |-> "route",
                         text |-> Head(uniqueUrls) \o NormalizedRoute(rt)]>>
                 ELSE <<>>)
             \o UrlLines(Tail(uniqueUrls), rt)

(***************************************************************************)
(* SpecRender: one worktree, one chunk of output, then the URL lines of    *)
(* the summary, for every route and both values of options.verbose         *)
(***************************************************************************)
\* "pitchdeck/1"
RoutePitchdeck ==
    <<"p", "i", "t", "c", "h", "d", "e", "c", "k", "/", "1">>

\* "/pitchdeck/1"
RouteSlashPitchdeck ==
    <<"/", "p", "i", "t", "c", "h", "d", "e", "c", "k", "/", "1">>

Routes ==
    {NoRoute, RoutePitchdeck, RouteSlashPitchdeck}

SampleLines ==
    { <<>>,
      <<" ", " ">>,
      <<"c", "o", "m", "p", "i", "l", "i", "n", "g">>,
      <<" ", "R", "e", "a", "d", "y", " ">>,
      <<"h", "t", "t", "p", ":", "/", "/", "l", "o", "c", "a", "l", "h",
        "o", "s", "t", ":", "3", "0", "0", "0">>,
      <<"e", "r", "r", "o", "r", " ", "l", "o", "c", "a", "l", "h", "o",
        "s", "t", ":", "3">>,
      <<"l", "o", "c", "a", "l", "h", "o", "s", "t", ":", "3", " ", "l",
        "o", "c", "a", "l", "h", "o", "s", "t", ":", "4">>,
      <<"\t", "W", "A", "R", "N", "\r">> }

RECURSIVE LineTexts(_)
\* the chunks of at most n lines, the lines joined by "\n"
LineTexts(n) ==
    IF n = 1 THEN SampleLines
    ELSE LET shorter == LineTexts(n - 1)
         IN  shorter \cup {t \o <<"\n">> \o l : t \in shorter, l \in SampleLines}

InitRender ==
    /\ pc = "running"
    /\ worktrees = <<>>
    /\ \E wt \in Worktrees :
         /\ selected = <<wt>>
         /\ processInfos = <<[worktree |-> wt, urls |-> <<>>, output |-> <<>>]>>
    /\ child = <<>>
    /\ promise = <<>>
    /\ summary = NoSummary
    /\ line = <<>>
    /\ lineUrls = <<>>
    /\ phase = "idle"
    /\ shown = NoShown
    /\ route \in Routes
    /\ verbose \in BOOLEAN
    /\ data \in LineTexts(MaxLines)
    /\ console = <<>>
    /\ sections = NoSections
    /\ worktreesToRemove = <<>>
    /\ confirmed = FALSE
    /\ commands = <<>>
    /\ messages = <<>>
    /\ removeAll = FALSE
    /\ removeAt = 0
    /\ config = NoConfig
    /\ stored = NoConfig
    /\ invocations = 0

\* the callback handed to runCommandInWorktree, called with one chunk
OnOutput ==
    /\ pc = "running"
    /\ processInfos' =
           [processInfos EXCEPT
              ![1].output = Append(@, data),
              ![1].urls = @ \o extractUrls(data)]
    /\ console' = console \o RenderLines(processInfos[1].worktree,
                                         split(data), verbose, route)
    /\ pc' = "settled"
    /\ UNCHANGED << worktrees, selected, child, promise, summary, urlVars,
                    shown, route, verbose, data, sections, removeVars, configVars >>

\* the URL lines of the summary: of each worktree, then of all
PrintUrlLines ==
    /\ pc = "settled"
    /\ sections' =
           [worktree |-> [k \in 1..Len(processInfos) |->
                             UrlLines(Unique(processInfos[k].urls), route)],
            all |-> UrlLines(AllUrls(processInfos), route)]
    /\ pc' = "summarised"
    /\ UNCHANGED << worktrees, selected, child, promise, processInfos,
                    summary, urlVars, shown, route, verbose, data, console,
                    removeVars, configVars >>

NextRender ==
    \/ OnOutput
    \/ PrintUrlLines

SpecRender ==
    InitRender /\ [][NextRender]_vars

(***************************************************************************)
(* The console: claims                                                     *)
(***************************************************************************)
\* the places of the line breaks of a text, with both of its ends
LineEnds(text) ==
    {0, Len(text) + 1} \cup {p \in 1..Len(text) : text[p] = "\n"}

\* the k-th smallest element of a set of numbers
Kth(S, k) ==
    CHOOSE x \in S : Cardinality({y \in S : y <= x}) = k

LineCount(text) ==
    Cardinality(LineEnds(text)) - 1

\* the k-th line of a text
ChunkLine(text, k) ==
    SubSeq(text, Kth(LineEnds(text), k) + 1, Kth(LineEnds(text), k + 1) - 1)

Blank(ln) ==
    \A k \in 1..Len(ln) : ln[k] \in {" ", "\t", "\r"}

\* isImportantLine as the claims state it
Important(ln) ==
    \/ MaximalOccurrences(ln) # {}
    \/ \E word \in ErrorVocabulary : Contains(Lowered(ln), word)
    \/ \E word \in ImportantVocabulary : Contains(Lowered(ln), word)

\* the lines of the chunk that are to be rendered, by their number
ToRender ==
    {k \in 1..LineCount(data) :
        /\ ~Blank(ChunkLine(data, k))
        /\ verbose \/ Important(ChunkLine(data, k))}

\* the written lines that are lines of the chunk, not route lines
IsChunkLine(entry) ==
    entry.style # "route"

Rendered ==
    SelectSeq(console, IsChunkLine)

\* the route with its leading "/"
WithSlash(rt) ==
    IF rt[1] = "/" THEN rt ELSE <<"/">> \o rt

\* "http://localhost:3000/pitchdeck/1"
Url3000Pitchdeck ==
    <<"h", "t", "t", "p", ":", "/", "/", "l", "o", "c", "a", "l", "h", "o",
      "s", "t", ":", "3", "0", "0", "0", "/", "p", "i", "t", "c", "h", "d",
      "e", "c", "k", "/", "1">>

\* C13: of the lines of a delivered chunk, exactly those are written that are
\* not blank and, unless verbose, important; they are written whole, in the
\* order of the chunk, each with the tag of the worktree.
C13_RenderedLines ==
    pc \in {"settled", "summarised"} =>
        /\ Len(Rendered) = Cardinality(ToRender)
        /\ \A m \in 1..Len(Rendered) :
              Rendered[m].text = ChunkLine(data, Kth(ToRender, m))
        /\ \A p \in 1..Len(console) : console[p].tag = selected[1]

\* C13 witness: without verbose, of the two lines "compiling" and " Ready "
\* only the second was written; it was written with its blanks
C13_Witness ==
    /\ pc = "settled"
    /\ ~verbose
    /\ LineCount(data) = 2
    /\ ChunkLine(data, 1) = <<"c", "o", "m", "p", "i", "l", "i", "n", "g">>
    /\ Len(console) = 1
    /\ console[1].text = <<" ", "R", "e", "a", "d", "y", " ">>

\* C14 as claimed: with a route, every written line of the chunk that holds a
\* URL is followed at once by one route line per URL of the line, the URL with
\* the normalized route; in verbose mode and for error lines too.
C14_RouteLineAfterEveryUrlLine ==
    (pc \in {"settled", "summarised"} /\ route # NoRoute) =>
        \A p \in 1..Len(console) :
            LET found == extractUrls(console[p].text)
            IN  (console[p].style # "route" /\ found # <<>>) =>
                    /\ p + Len(found) <= Len(console)
                    /\ \A k \in 1..Len(found) :
                          /\ console[p + k].style = "route"
                          /\ console[p + k].text = found[k] \o WithSlash(route)

\* the texts of the route lines of a list of written lines
RouteTexts(written) ==
    {written[p].text : p \in {q \in 1..Len(written) : written[q].style = "route"}}

\* C15: a route line is a URL followed by the route, with a "/" between them
\* when the route does not start with one; the console, the worktree's
\* summary and the global section write the same variant; the summary writes
\* one after each of its URLs; "pitchdeck/1" after "http://localhost:3000" is
\* "http://localhost:3000/pitchdeck/1"; without a route there is no route
\* line anywhere.
C15_RouteVariant ==
    LET urls == Unique(MatchAll(data, 1))
        variants == {urls[k] \o WithSlash(route) : k \in 1..Len(urls)}
    IN  /\ route = NoRoute =>
              /\ RouteTexts(console) = {}
              /\ pc = "summarised" =>
                    /\ RouteTexts(sections.worktree[1]) = {}
                    /\ RouteTexts(sections.all) = {}
        /\ route # NoRoute =>
              /\ RouteTexts(console) \subseteq variants
              /\ pc = "summarised" =>
                    /\ RouteTexts(sections.worktree[1]) = variants
                    /\ RouteTexts(sections.all) = variants
                    /\ Len(sections.worktree[1]) = 2 * Len(urls)
                    /\ Len(sections.all) = 2 * Len(urls)
                    /\ \A k \in 1..Len(urls) :
                          /\ sections.worktree[1][2 * k - 1] =
                                [style |-> "url", text |-> urls[k]]
                          /\ sections.worktree[1][2 * k] =
                                [style |-> "route",
                                 text |-> urls[k] \o WithSlash(route)]
                          /\ sections.all[2 * k] = sections.worktree[1][2 * k]
        /\ (route = RoutePitchdeck /\ pc = "summarised"
               /\ Len(urls) > 0 /\ urls[1] = Url3000) =>
              sections.all[2].text = Url3000Pitchdeck

\* C15 witness: with route "pitchdeck/1" the console, the worktree's summary
\* and the global section all wrote "http://localhost:3000/pitchdeck/1"
C15_Witness ==
    /\ pc = "summarised"
    /\ route = RoutePitchdeck
    /\ Url3000Pitchdeck \in RouteTexts(console)
    /\ Url3000Pitchdeck \in RouteTexts(sections.worktree[1])
    /\ Url3000Pitchdeck \in RouteTexts(sections.all)

(***************************************************************************)
(* The summary of failed runs: claims                                      *)
(***************************************************************************)
\* C16: in the summary a worktree whose runner failed has the failure glyph
\* and the reason of its failure, the exit code or the spawn error; one whose
\* runner succeeded has the success glyph and no reason; every entry lists
\* the URLs its worktree collected, each once, also when the runner failed.
C16_SummaryFailureReason ==
    summary.printed =>
        \A k \in Indexes :
            LET entry == summary.entries[k]
            IN  /\ Failed(k) =>
                      /\ ~entry.ok
                      /\ entry.error \in
                            {SpawnError} \cup {ExitError(c) : c \in ExitCodes \ {0}}
                      /\ entry.error.kind = "exit" =>
                            ExitedWith(k, entry.error.code)
                      /\ entry.error.kind = "spawn" => SpawnFailed(k)
                /\ Succeeded(k) => entry.ok /\ entry.error = NoReason
                /\ Range(entry.urls) = Range(processInfos[k].urls)
                /\ NoDuplicates(entry.urls)

\* C16 witness: a worktree received the same URL in two chunks, then its
\* process exited 1: its entry has the failure glyph, the exit code and the
\* URL once
C16_Witness ==
    /\ summary.printed
    /\ \E k \in Indexes :
          /\ processInfos[k].urls = <<ChunkPort3, ChunkPort3>>
          /\ ExitedWith(k, 1)
          /\ summary.entries[k] =
                [worktree |-> selected[k], ok |-> FALSE,
                 urls |-> <<ChunkPort3>>, error |-> ExitError(1)]

\* every selected worktree's process has exited or failed to start, and the
\* coordinator waits
AllEnded ==
    /\ selected # <<>>
    /\ pc = "waiting"
    /\ \A i \in Indexes : child[i].state \in {"threw", "closed"}

\* C17: the error exit is taken only when the worktrees cannot be listed,
\* never once a process exists; when the processes have ended, some or all
\* of them with a failing exit or a spawn error, the summary is ready to be
\* printed; and the wait is left in no other way than by printing the
\* summary, with those failures as Failed entries.
C17_FailuresReachSummary ==
    /\ [][pc' = "exit1" => pc \in {"start", "exit1"}]_vars
    /\ []((AllEnded /\ \E i \in Indexes : ~ExitedWith(i, 0)) =>
             ENABLED PrintSummary)
    /\ [][(pc = "waiting" /\ pc' # "waiting") =>
             /\ pc' = "done"
             /\ summary'.printed
             /\ \A k \in Indexes :
                   summary'.entries[k].ok <=> ExitedWith(k, 0)]_vars

\* C17 witness: every process failed, one by its exit code and one by a spawn
\* error, and the run ended with the summary
C17_Witness ==
    /\ pc = "done"
    /\ summary.printed
    /\ Len(selected) = 2
    /\ \A i \in Indexes : Failed(i)
    /\ \E i, j \in Indexes : ExitedWith(i, 1) /\ SpawnFailed(j)

(***************************************************************************)
(* removeWorktrees                                                         *)
(* A command is [worktree, force, ok]: one `git worktree remove`, forced   *)
(* or not, and whether git carried it out.  A message is [kind, worktree]. *)
(***************************************************************************)
\* the worktrees git may list: a main worktree and those added to it
ListedWorktrees ==
    1..(MaxRemovable + 1)

\* faulty variant of removableWorktrees: the main worktree is not left out
removableWorktreesAll(wts) ==
    wts

\* worktrees.filter((wt, index) => index !== 0)
removableWorktrees(wts) ==
    [k \in 1..(Len(wts) - 1) |-> wts[k + 1]]

\* faulty variant of AfterConfirm: the answer is not looked at
AfterConfirmIgnored(answer) ==
    "rmRemoving"

\* if (!confirmAll) { ...; return; } and if (!confirm) { ...; return; }
AfterConfirm(answer) ==
    IF answer THEN "rmRemoving" ELSE "rmCancelled"

\* the for loop goes to its next worktree, or ends
NextIteration(at, n) ==
    IF at < n THEN "rmRemoving" ELSE "rmDone"

InitRemove ==
    /\ pc = "rmStart"
    /\ worktrees = <<>>
    /\ selected = <<>>
    /\ child = <<>>
    /\ promise = <<>>
    /\ processInfos = <<>>
    /\ summary = NoSummary
    /\ line = <<>>
    /\ lineUrls = <<>>
    /\ phase = "idle"
    /\ shown = NoShown
    /\ route = NoRoute
    /\ verbose = FALSE
    /\ data = <<>>
    /\ console = <<>>
    /\ sections = NoSections
    /\ worktreesToRemove = <<>>
    /\ confirmed = FALSE
    /\ commands = <<>>
    /\ messages = <<>>
    /\ removeAll \in BOOLEAN
    /\ removeAt = 0
    /\ config = NoConfig
    /\ stored = NoConfig
    /\ invocations = 0

\* git worktree list --porcelain, then the two early returns
ListForRemoval ==
    /\ pc = "rmStart"
    /\ \/ /\ pc' = "rmExit1"            \* execAsync rejects: catch, exit(1)
          /\ UNCHANGED worktrees
       \/ \E S \in SUBSET ListedWorktrees : \E list \in Listings(S) :
            /\ worktrees' = list
            /\ pc' = IF Len(list) = 0 THEN "rmNoWorktrees"
                     ELSE IF Len(removableWorktrees(list)) = 0
                          THEN "rmOnlyMain"
                     ELSE IF removeAll THEN "rmConfirmAll"
                     ELSE "rmSelect"
    /\ UNCHANGED << selected, child, promise, processInfos, summary, urlVars,
                    renderVars, removeVars, configVars >>

\* options.all: the confirmation of removing all
ConfirmAll ==
    /\ pc = "rmConfirmAll"
    /\ \E confirmAll \in BOOLEAN :
         /\ confirmed' = confirmAll
         /\ pc' = AfterConfirm(confirmAll)
         /\ IF AfterConfirm(confirmAll) = "rmRemoving"
            THEN /\ worktreesToRemove' = removableWorktrees(worktrees)
                 /\ removeAt' = 1
            ELSE UNCHANGED << worktreesToRemove, removeAt >>
    /\ UNCHANGED << configVars, worktrees, selected, child, promise, processInfos,
                    summary, urlVars, renderVars, commands, messages,
                    removeAll >>

\* the checkbox prompt over the removable worktrees, sorted by branch
SelectForRemoval ==
    /\ pc = "rmSelect"
    /\ \E S \in SUBSET Range(removableWorktrees(worktrees)) :
         IF S = {}
         THEN /\ pc' = "rmNoSelection"
              /\ UNCHANGED worktreesToRemove
         ELSE /\ worktreesToRemove' = SortedSeq(S)
              /\ pc' = "rmConfirm"
    /\ UNCHANGED << configVars, worktrees, selected, child, promise, processInfos,
                    summary, urlVars, renderVars, confirmed, commands,
                    messages, removeAll, removeAt >>

\* the final confirmation of the interactive selection
Confirm ==
    /\ pc = "rmConfirm"
    /\ \E confirm \in BOOLEAN :
         /\ confirmed' = confirm
         /\ pc' = AfterConfirm(confirm)
         /\ removeAt' = IF AfterConfirm(confirm) = "rmRemoving" THEN 1 ELSE removeAt
    /\ UNCHANGED << configVars, worktrees, selected, child, promise, processInfos,
                    summary, urlVars, renderVars, worktreesToRemove, commands,
                    messages, removeAll >>

\* await execAsync(`git worktree remove "${wt.path}"`), and what follows it
RemoveNormal ==
    /\ pc = "rmRemoving"
    /\ LET wt == worktreesToRemove[removeAt]
       IN  \E ok \in BOOLEAN :
             /\ commands' = Append(commands,
                                   [worktree |-> wt, force |-> FALSE, ok |-> ok])
             /\ IF ok
                THEN /\ messages' = Append(messages,
                                           [kind |-> "removed", worktree |-> wt])
                     /\ pc' = NextIteration(removeAt, Len(worktreesToRemove))
                     /\ removeAt' = removeAt + 1
                ELSE /\ pc' = "rmForcing"
                     /\ UNCHANGED << messages, removeAt >>
    /\ UNCHANGED << configVars, worktrees, selected, child, promise, processInfos,
                    summary, urlVars, renderVars, worktreesToRemove, confirmed,
                    removeAll >>

\* faulty variant of RemoveForce: a worktree that cannot be removed ends the
\* loop
RemoveForceStops ==
    /\ pc = "rmForcing"
    /\ LET wt == worktreesToRemove[removeAt]
       IN  \E ok \in BOOLEAN :
             /\ commands' = Append(commands,
                                   [worktree |-> wt, force |-> TRUE, ok |-> ok])
             /\ messages' = Append(messages,
                    [kind |-> IF ok THEN "forceRemoved" ELSE "failed",
                     worktree |-> wt])
             /\ pc' = IF ok
                      THEN NextIteration(removeAt, Len(worktreesToRemove))
                      ELSE "rmDone"
             /\ removeAt' = removeAt + 1
    /\ UNCHANGED << configVars, worktrees, selected, child, promise, processInfos,
                    summary, urlVars, renderVars, worktreesToRemove, confirmed,
                    removeAll >>

\* catch (error): await execAsync(`git worktree remove --force ...`)
RemoveForce ==
    /\ pc = "rmForcing"
    /\ LET wt == worktreesToRemove[removeAt]
       IN  \E ok \in BOOLEAN :
             /\ commands' = Append(commands,
                                   [worktree |-> wt, force |-> TRUE, ok |-> ok])
             /\ messages' = Append(messages,
                    [kind |-> IF ok THEN "forceRemoved" ELSE "failed",
                     worktree |-> wt])
             /\ pc' = NextIteration(removeAt, Len(worktreesToRemove))
             /\ removeAt' = removeAt + 1
    /\ UNCHANGED << configVars, worktrees, selected, child, promise, processInfos,
                    summary, urlVars, renderVars, worktreesToRemove, confirmed,
                    removeAll >>

NextRemove ==
    \/ ListForRemoval
    \/ ConfirmAll
    \/ SelectForRemoval
    \/ Confirm
    \/ RemoveNormal
    \/ RemoveForce

SpecRemove ==
    InitRemove /\ [][NextRemove]_vars

(***************************************************************************)
(* removeWorktrees: claims                                                 *)
(***************************************************************************)
\* the worktrees of the commands that were not forced, in their order
NormalAttempts ==
    LET normal == {k \in 1..Len(commands) : ~commands[k].force}
    IN  [m \in 1..Cardinality(normal) |-> commands[Kth(normal, m)].worktree]

\* the normal and the forced removal of the worktree, where there was one
CommandsOn(wt) ==
    LET on == {k \in 1..Len(commands) : commands[k].worktree = wt}
    IN  [m \in 1..Cardinality(on) |-> commands[Kth(on, m)]]

\* C18: no removal, normal or forced, is issued for the first-listed
\* worktree, and the first-listed worktree is never among those to remove,
\* with --all and with every selection; when it is the only worktree, no
\* removal is issued at all.
C18_MainNeverRemoved ==
    /\ \A k \in 1..Len(commands) : commands[k].worktree # worktrees[1]
    /\ \A k \in 1..Len(worktreesToRemove) :
          worktreesToRemove[k] # worktrees[1]
    /\ Len(worktrees) = 1 => pc = "rmOnlyMain" /\ commands = <<>>
    /\ (removeAll /\ pc = "rmDone") =>
          Range(NormalAttempts) = Range(worktrees) \ {worktrees[1]}

\* C18 witness: with --all, all worktrees but the first-listed one were
\* removed, one of them by force, and the first-listed one is not the first
\* by branch name
C18_Witness ==
    /\ pc = "rmDone"
    /\ removeAll
    /\ Len(worktrees) = MaxRemovable + 1
    /\ worktrees[1] # 1
    /\ Len(messages) = MaxRemovable
    /\ \E k \in 1..Len(commands) : commands[k].force

\* C19: a removal is issued only after the confirmation was answered yes;
\* after a declined confirmation or an empty selection no removal has been
\* issued and the command takes no further step.
C19_ConfirmedBeforeRemoval ==
    /\ [](commands # <<>> => confirmed)
    /\ [](pc \in {"rmRemoving", "rmForcing", "rmDone"} => confirmed)
    /\ [](pc \in {"rmCancelled", "rmNoSelection"} =>
             commands = <<>> /\ messages = <<>>)
    /\ [][pc \notin {"rmCancelled", "rmNoSelection"}]_vars

\* C19 witness: worktrees were selected for removal and the confirmation was
\* declined
C19_Witness ==
    /\ pc = "rmCancelled"
    /\ ~removeAll
    /\ Len(worktreesToRemove) = MaxRemovable
    /\ ~confirmed
    /\ commands = <<>>

\* C20: a forced removal directly follows the failed normal removal of the
\* same worktree; at the end every worktree to remove has been attempted, in
\* order, whatever became of those before it, and has exactly one message:
\* removed, force removed or failed to remove, according to its commands.
C20_ForceAfterFailureOnly ==
    /\ \A k \in 1..Len(commands) :
          commands[k].force =>
              /\ k > 1
              /\ commands[k - 1] = [worktree |-> commands[k].worktree,
                                    force |-> FALSE, ok |-> FALSE]
    /\ \A k \in 1..Len(messages) :
          /\ messages[k].worktree = worktreesToRemove[k]
          /\ LET on == CommandsOn(messages[k].worktree)
             IN  /\ messages[k].kind = "removed" <=>
                       (Len(on) = 1 /\ on[1].ok)
                 /\ messages[k].kind = "forceRemoved" <=>
                       (Len(on) = 2 /\ ~on[1].ok /\ on[2].ok)
                 /\ messages[k].kind = "failed" <=>
                       (Len(on) = 2 /\ ~on[1].ok /\ ~on[2].ok)
    /\ pc = "rmDone" =>
          /\ NormalAttempts = worktreesToRemove
          /\ Len(messages) = Len(worktreesToRemove)

\* C20 witness: the first worktree could not be removed, not even by force,
\* and the second was removed after it
C20_Witness ==
    /\ pc = "rmDone"
    /\ Len(worktreesToRemove) = 2
    /\ messages[1].kind = "failed"
    /\ messages[2].kind = "removed"
    /\ Len(commands) = 3

(***************************************************************************)
(* The results of the worktrees: claims                                    *)
(***************************************************************************)
\* C21: at every point of a run the urls collection of every worktree holds
\* no URL twice, also when a URL came in several chunks.
C21_UrlsNeverDuplicated ==
    \A i \in Indexes : NoDuplicates(processInfos[i].urls)

\* C22: a step never changes an outcome that is Succeeded or Failed; an
\* outcome that leaves Pending does so in a step of its own process; events
\* that follow the settling one leave status and reason as they are.
C22_OutcomeSettledOnce ==
    [][\A i \in DOMAIN promise :
          /\ i \in DOMAIN promise'
          /\ promise[i].status # "pending" => promise'[i] = promise[i]
          /\ promise'[i].status = "pending" => promise[i].status = "pending"]_vars

\* C22 witness: the close event that follows the error event of a failed
\* spawn has been handled, and the outcome is still the spawn error
C22_Witness ==
    \E i \in Indexes :
        /\ child[i] = [state |-> "closed", errored |-> TRUE, code |-> SpawnErrno]
        /\ promise[i] = [status |-> "rejected", reason |-> SpawnError]

\* C23: a step that changes the urls, the output or the outcome of one
\* worktree leaves the urls, the output and the outcome of every other
\* worktree as they were.
C23_OnlyOwnResult ==
    [][\A i \in DOMAIN processInfos :
          (/\ i \in DOMAIN processInfos'
           /\ \/ processInfos'[i] # processInfos[i]
              \/ promise'[i] # promise[i]) =>
              \A k \in DOMAIN processInfos \ {i} :
                  /\ processInfos'[k] = processInfos[k]
                  /\ promise'[k] = promise[k]]_vars

\* C23 witness: with two worktrees running, the first received two chunks
\* and failed while the second has received nothing and is still pending
C23_Witness ==
    /\ Len(selected) = 2
    /\ Len(processInfos[1].output) = 2
    /\ Failed(1)
    /\ processInfos[2] = [worktree |-> selected[2], urls |-> <<>>,
                          output |-> <<>>]
    /\ promise[2] = Pending
    /\ child[2].state = "started"

\* C24: a step never changes the urls or the output of a worktree whose
\* outcome is Succeeded or Failed, whether it was settled by the close of
\* its process or by an error event.
C24_ResultFrozen ==
    [][\A i \in DOMAIN promise :
          (i \in DOMAIN promise' /\ promise[i].status # "pending") =>
              processInfos'[i] = processInfos[i]]_vars

\* C24 witness: one worktree was settled by an error event and its result was
\* still empty after the close event that followed; the other was settled by
\* the close of its process, after a chunk
C24_Witness ==
    /\ Len(selected) = 2
    /\ \E i, j \in Indexes :
          /\ child[i].state = "closed" /\ child[i].errored
          /\ ExitedWith(j, 0)
          /\ processInfos[j].output # <<>>
          /\ processInfos[i].output = <<>>

(***************************************************************************)
(* The configuration file: the command and route prompts of runCommand and *)
(* the file prompt of copyFiles                                            *)
(* `choices = config.savedCommands || []` is the array of the config       *)
(* object itself when the list is present: unshift and push on choices     *)
(* change config.savedCommands.                                            *)
(***************************************************************************)
\* `${value} (default)`
WithDefaultMark ==
    [x \in {"pnpm dev", "pnpm build", "/pitchdeck/1", "/about"} |->
        CASE x = "pnpm dev" -> "pnpm dev (default)"
          [] x = "pnpm build" -> "pnpm build (default)"
          [] x = "/pitchdeck/1" -> "/pitchdeck/1 (default)"
          [] x = "/about" -> "/about (default)"]

\* what the user may type at the three input prompts
CustomCommands ==
    {"pnpm build"}

CustomRoutes ==
    {"/about"}

CustomFiles ==
    {".env.local"}

\* a configuration with every field of the README's example
ReadmeConfig ==
    [defaultCommand |-> "pnpm dev",
     savedCommands |-> [present |-> TRUE, items |-> <<"pnpm dev">>],
     defaultRoute |-> "/pitchdeck/1",
     savedRoutes |-> [present |-> TRUE, items |-> <<"/pitchdeck/1">>],
     filesToCopy |-> [present |-> TRUE, items |-> <<".env">>]]

StoredConfigs ==
    {NoConfig, ReadmeConfig,
     [NoConfig EXCEPT !.savedCommands = [present |-> TRUE, items |-> <<"pnpm dev">>]]}

\* the menu built on `list || fallback`: the default first, if any, then the
\* list, then the menu's own entries
Menu(list, fallback, default, entries) ==
    (IF default # "" THEN <<WithDefaultMark[default]>> ELSE <<>>)
        \o (IF list.present THEN list.items ELSE fallback)
        \o entries

\* the list of the config object once the menu is built: the menu itself
\* when the list was present, for choices is then the same array
ListAfterMenu(list, menu) ==
    IF list.present THEN [present |-> TRUE, items |-> menu] ELSE list

\* if (!list) list = []; if (!list.includes(value)) list.push(value)
AddToList(list, value) ==
    IF \E k \in 1..Len(list.items) : list.items[k] = value
    THEN [present |-> TRUE, items |-> list.items]
    ELSE [present |-> TRUE, items |-> Append(list.items, value)]

InitConfig ==
    /\ pc = "shell"
    /\ worktrees = <<>>
    /\ selected = <<>>
    /\ child = <<>>
    /\ promise = <<>>
    /\ processInfos = <<>>
    /\ summary = NoSummary
    /\ line = <<>>
    /\ lineUrls = <<>>
    /\ phase = "idle"
    /\ shown = NoShown
    /\ route = NoRoute
    /\ verbose = FALSE
    /\ data = <<>>
    /\ console = <<>>
    /\ sections = NoSections
    /\ worktreesToRemove = <<>>
    /\ confirmed = FALSE
    /\ commands = <<>>
    /\ messages = <<>>
    /\ removeAll = FALSE
    /\ removeAt = 0
    /\ config = NoConfig
    /\ stored \in StoredConfigs
    /\ invocations = 0

\* otree run / otree copy: const config = loadConfig(cwd)
LoadConfig ==
    /\ pc = "shell"
    /\ invocations < MaxInvocations
    /\ invocations' = invocations + 1
    /\ config' = stored
    /\ pc' \in {"getCommand", "getFile"}
    /\ UNCHANGED << stored, worktrees, selected, child, promise, processInfos,
                    summary, urlVars, renderVars, removeVars >>

\* runCommand, "Get command": options.command, or the list prompt and, for a
\* custom command, the input, save and default prompts
GetCommand ==
    /\ pc = "getCommand"
    /\ pc' = "getRoute"
    /\ \/ UNCHANGED << config, stored >>          \* options.command is set
       \/ LET choices == Menu(config.savedCommands, <<>>, config.defaultCommand,
                              <<"Enter custom command...">>)
              aliased == [config EXCEPT
                           !.savedCommands = ListAfterMenu(@, choices)]
          IN  \E commandChoice \in Range(choices) :
                IF commandChoice # "Enter custom command..."
                THEN config' = aliased /\ UNCHANGED stored
                ELSE \E command \in CustomCommands :
                     \E saveCommand, setAsDefault \in BOOLEAN :
                       IF ~saveCommand
                       THEN config' = aliased /\ UNCHANGED stored
                       ELSE /\ config' =
                                 [aliased EXCEPT
                                    !.defaultCommand =
                                        IF setAsDefault THEN command ELSE @,
                                    !.savedCommands = AddToList(@, command)]
                            /\ stored' = config'
    /\ UNCHANGED << invocations, worktrees, selected, child, promise,
                    processInfos, summary, urlVars, renderVars, removeVars >>

\* runCommand, "Get route": options.route, or the list prompt and, for a
\* custom route, the input, save and default prompts
GetRoute ==
    /\ pc = "getRoute"
    /\ pc' = "shell"
    /\ \/ UNCHANGED << config, stored >>          \* options.route is set
       \/ LET routeChoices == Menu(config.savedRoutes, <<>>, config.defaultRoute,
                                   <<"No route", "Enter custom route...">>)
              aliased == [config EXCEPT
                           !.savedRoutes = ListAfterMenu(@, routeChoices)]
          IN  \E routeChoice \in Range(routeChoices) :
                IF routeChoice # "Enter custom route..."
                THEN config' = aliased /\ UNCHANGED stored
                ELSE \E customRoute \in CustomRoutes :
                     \E saveRoute, setAsDefaultRoute \in BOOLEAN :
                       IF ~saveRoute
                       THEN config' = aliased /\ UNCHANGED stored
                       ELSE /\ config' =
                                 [aliased EXCEPT
                                    !.defaultRoute =
                                        IF setAsDefaultRoute
                                        THEN customRoute ELSE @,
                                    !.savedRoutes = AddToList(@, customRoute)]
                            /\ stored' = config'
    /\ UNCHANGED << invocations, worktrees, selected, child, promise,
                    processInfos, summary, urlVars, renderVars, removeVars >>

\* copyFiles, "Get file to copy": options.file, or the list prompt and, for
\* a custom path, the input and save prompts
GetFile ==
    /\ pc = "getFile"
    /\ pc' = "shell"
    /\ \/ UNCHANGED << config, stored >>          \* options.file is set
       \/ LET choices == Menu(config.filesToCopy, <<".env">>, "",
                              <<"Enter custom file path...">>)
              aliased == [config EXCEPT
                           !.filesToCopy = ListAfterMenu(@, choices)]
          IN  \E fileChoice \in Range(choices) :
                IF fileChoice # "Enter custom file path..."
                THEN config' = aliased /\ UNCHANGED stored
                ELSE \E customFile \in CustomFiles : \E saveFile \in BOOLEAN :
                       IF ~saveFile
                       THEN config' = aliased /\ UNCHANGED stored
                       ELSE /\ config' =
                                 [aliased EXCEPT
                                    !.filesToCopy = AddToList(@, customFile)]
                            /\ stored' = config'
    /\ UNCHANGED << invocations, worktrees, selected, child, promise,
                    processInfos, summary, urlVars, renderVars, removeVars >>

NextConfig ==
    \/ LoadConfig
    \/ GetCommand
    \/ GetRoute
    \/ GetFile

SpecConfig ==
    InitConfig /\ [][NextConfig]_vars

(***************************************************************************)
(* The configuration file: claims                                          *)
(***************************************************************************)
\* the entries that exist only in the menus
MenuOnly ==
    {"Enter custom command...", "No route", "Enter custom route...",
     "Enter custom file path..."}
        \cup {WithDefaultMark[x] : x \in DOMAIN WithDefaultMark}

\* C25: the savedCommands, savedRoutes and filesToCopy lists of the
\* configuration file never hold an entry that exists only in a menu.
C25_NoMenuEntryStored ==
    \A x \in Range(stored.savedCommands.items)
                \cup Range(stored.savedRoutes.items)
                \cup Range(stored.filesToCopy.items) : x \notin MenuOnly

(***************************************************************************)
(* SpecChunks: the output of one process, delivered to onOutput in pieces  *)
(***************************************************************************)
\* what a process may write in all
StreamTexts ==
    { <<"l", "o", "c", "a", "l", "h", "o", "s", "t", ":", "3", "0", "0", "0">>,
      <<"h", "t", "t", "p", ":", "/", "/", "l", "o", "c", "a", "l", "h",
        "o", "s", "t", ":", "3", "0", "0", "0", " ", "o", "k">>,
      <<"o", "k", " ", "l", "o", "c", "a", "l", "h", "o", "s", "t", ":",
        "3", " ", "l", "o", "c", "a", "l", "h", "o", "s", "t", ":", "3">>,
      <<"h", "t", "t", "p", ":", "/", "/", "1", "2", "7", ".", "0", ".",
        "0", ".", "1", ":", "8", "0", " ", "l", "o", "c", "a", "l", "h",
        "o", "s", "t", ":", "8", "0">> }

RECURSIVE TotalLen(_)
\* the number of characters of a list of chunks
TotalLen(chunks) ==
    IF chunks = <<>> THEN 0 ELSE Len(Head(chunks)) + TotalLen(Tail(chunks))

\* how much of the process's output has been delivered
Delivered ==
    TotalLen(processInfos[1].output)

InitChunks ==
    /\ pc = "streaming"
    /\ worktrees = <<>>
    /\ selected = <<1>>
    /\ child = <<>>
    /\ promise = <<>>
    /\ processInfos = <<[worktree |-> 1, urls |-> <<>>, output |-> <<>>]>>
    /\ summary = NoSummary
    /\ line = <<>>
    /\ lineUrls = <<>>
    /\ phase = "idle"
    /\ shown = NoShown
    /\ route = NoRoute
    /\ verbose = FALSE
    /\ data \in StreamTexts
    /\ console = <<>>
    /\ sections = NoSections
    /\ worktreesToRemove = <<>>
    /\ confirmed = FALSE
    /\ commands = <<>>
    /\ messages = <<>>
    /\ removeAll = FALSE
    /\ removeAt = 0
    /\ config = NoConfig
    /\ stored = NoConfig
    /\ invocations = 0

\* a data event with the next piece of the output: onOutput(chunk); the
\* last of MaxPieces pieces carries all that is left
OnChunk ==
    /\ pc = "streaming"
    /\ Len(processInfos[1].output) < MaxPieces
    /\ \E n \in 1..(Len(data) - Delivered) :
         /\ Len(processInfos[1].output) = MaxPieces - 1 =>
                n = Len(data) - Delivered
         /\ LET piece == SubSeq(data, Delivered + 1, Delivered + n)
            IN  /\ processInfos' =
                       [processInfos EXCEPT
                          ![1].output = Append(@, piece),
                          ![1].urls = @ \o extractUrls(piece)]
                /\ console' = console \o RenderLines(processInfos[1].worktree,
                                                     split(piece), verbose, route)
    /\ UNCHANGED << pc, worktrees, selected, child, promise, summary, urlVars,
                    shown, route, verbose, data, sections, removeVars,
                    configVars >>

NextChunks ==
    OnChunk

SpecChunks ==
    InitChunks /\ [][NextChunks]_vars

\* C26: when the whole output of a process has been delivered, in whatever
\* pieces, the URLs collected for its worktree, each once, are the URLs of
\* the whole output.
C26_SplitIndependent ==
    Delivered = Len(data) =>
        Unique(processInfos[1].urls) = extractUrls(data)

====
